---- MODULE Spec2Model ----
(***************************************************************************)
(* A model of Sudoku.go: the Sudoku solver by constraint propagation and   *)
(* depth-first search over bit-packed candidate sets.                      *)
(*                                                                         *)
(* A grid is a function 0..80 -> 0..511 (the Go []int of 81 bitsets).  A   *)
(* Go slice that the code iterates over is a sequence; a Go array that it  *)
(* indexes is a function from 0.                                           *)
(***************************************************************************)
EXTENDS Integers, Sequences, FiniteSets, TLC

\* ------------------------------------------------------------ Constants

N == 9

ALL_DIGITS == 511

NN == N * N

\* var DIGITS = [...]int{1 << 0, ..., 1 << 8}
DIGITS == [i \in 0..(N - 1) |-> 2 ^ i]

ROWS == <<0, 1, 2, 3, 4, 5, 6, 7, 8>>

COLS == ROWS

SQUARES == [i \in 0..(NN - 1) |-> i]

BLOCKS == <<<<0, 1, 2>>, <<3, 4, 5>>, <<6, 7, 8>>>>

\* cross: all squares in the intersection of these rows and cols, row-major
cross(rows, cols) ==
    [k \in 1..(Len(rows) * Len(cols)) |->
        N * rows[((k - 1) \div Len(cols)) + 1] + cols[((k - 1) % Len(cols)) + 1]]

\* member: item is an element of array
member(item, array) == \E k \in 1..Len(array) : array[k] = item

\* the 27 units: 9 rows, 9 columns, 9 blocks (init, first three loops)
ALL_UNITS ==
    [i \in 0..(3 * N - 1) |->
        IF i < N THEN cross(<<ROWS[i + 1]>>, COLS)
        ELSE IF i < 2 * N THEN cross(ROWS, <<COLS[i - N + 1]>>)
        ELSE cross(BLOCKS[((i - 2 * N) \div 3) + 1], BLOCKS[((i - 2 * N) % 3) + 1])]

\* the units as a sequence, in the order of ALL_UNITS
AllUnitsSeq == [k \in 1..(3 * N) |-> ALL_UNITS[k - 1]]

\* UNITS[s]: the 3 units of square s, in the order of ALL_UNITS
UNITS == [s \in 0..(NN - 1) |-> SelectSeq(AllUnitsSeq, LAMBDA u : member(s, u))]

RECURSIVE appendNew(_, _, _, _)
\* the inner loops of the PEERS initialisation: append to acc every square of
\* cand[k..] that is not s and not yet in acc
appendNew(s, cand, k, acc) ==
    IF k > Len(cand) THEN acc
    ELSE IF cand[k] # s /\ ~member(cand[k], acc)
         THEN appendNew(s, cand, k + 1, Append(acc, cand[k]))
         ELSE appendNew(s, cand, k + 1, acc)

\* PEERS[s]: the 20 squares that share a unit with s, in the order found
PEERS ==
    [s \in 0..(NN - 1) |->
        appendNew(s, UNITS[s][1] \o UNITS[s][2] \o UNITS[s][3], 1, <<>>)]

RECURSIVE OnesCount(_)
\* bits.OnesCount
OnesCount(v) == IF v = 0 THEN 0 ELSE (v % 2) + OnesCount(v \div 2)

NUM_DIGITS == [val \in 0..ALL_DIGITS |-> OnesCount(val)]

\* v & d for a one-bit d (every call site passes an element of DIGITS, a parsed
\* given, or the value of a cell with NUM_DIGITS = 1)
And(v, d) == ((v \div d) % 2) * d

\* ------------------------------------------------------ Propagation
\* fill, eliminate, arcConsistent and dualConsistent call each other and change
\* the grid in place.  Their call tree is run on an explicit call stack: a
\* machine m is the grid m.g, the stack m.st of the calls in progress (the
\* callee on top) and, when m.pend, the value m.rv that the call popped last
\* has returned to the frame now on top.  A frame is the function, its
\* arguments s and d, and k: where in its body the call stands (0 on entry).

Frame(fn, s, d, k) == [fn |-> fn, s |-> s, d |-> d, k |-> k]

Top(m) == m.st[Len(m.st)]

\* return b to the caller
Return(m, b) ==
    [g |-> m.g, st |-> SubSeq(m.st, 1, Len(m.st) - 1), pend |-> TRUE, rv |-> b]

\* the frame on top moves to k and calls callee
Call(m, k, callee) ==
    [g |-> m.g,
     st |-> Append([m.st EXCEPT ![Len(m.st)].k = k], callee),
     pend |-> FALSE, rv |-> FALSE]

\* fill grid[s] = d, then eliminate d from every peer of s; nil (FALSE) when d
\* is not possible for grid[s] or an eliminate fails.  k is the index in
\* PEERS[s] of the peer whose eliminate is in progress.
fillStep(m) ==
    LET f == Top(m)
    IN  IF ~m.pend
        THEN IF And(m.g[f.s], f.d) = 0 THEN Return(m, FALSE)
             ELSE Call([m EXCEPT !.g[f.s] = f.d], 1,
                       Frame("eliminate", PEERS[f.s][1], f.d, 0))
        ELSE IF ~m.rv THEN Return(m, FALSE)
             ELSE IF f.k >= Len(PEERS[f.s]) THEN Return(m, TRUE)
             ELSE Call(m, f.k + 1, Frame("eliminate", PEERS[f.s][f.k + 1], f.d, 0))

\* eliminate that runs its checks and leaves d in grid[s]
eliminateKeepsDigit(m) ==
    LET f == Top(m)
    IN  IF ~m.pend
        THEN IF And(m.g[f.s], f.d) = 0 THEN Return(m, TRUE)
             ELSE Call(m, 1, Frame("arcConsistent", f.s, 0, 0))
        ELSE IF f.k = 1
             THEN IF ~m.rv THEN Return(m, FALSE)
                  ELSE Call(m, 2, Frame("dualConsistent", f.s, f.d, 0))
             ELSE Return(m, m.rv)

\* eliminate that returns true and leaves d in grid[s]
eliminateNothing(m) == Return(m, TRUE)

\* eliminate d from grid[s]; k = 1 while arcConsistent runs, 2 while
\* dualConsistent runs (ret := arcConsistent(grid, s) && dualConsistent(grid, s, d))
eliminateStep(m) ==
    LET f == Top(m)
    IN  IF ~m.pend
        THEN IF And(m.g[f.s], f.d) = 0 THEN Return(m, TRUE)
             ELSE Call([m EXCEPT !.g[f.s] = @ - f.d], 1,
                       Frame("arcConsistent", f.s, 0, 0))
        ELSE IF f.k = 1
             THEN IF ~m.rv THEN Return(m, FALSE)
                  ELSE Call(m, 2, Frame("dualConsistent", f.s, f.d, 0))
             ELSE Return(m, m.rv)

\* arcConsistent that takes a square with one possible value as consistent
\* without filling it
arcConsistentNoFill(m) ==
    LET f == Top(m)
        count == NUM_DIGITS[m.g[f.s]]
    IN  IF count >= 1 THEN Return(m, TRUE) ELSE Return(m, FALSE)

\* arcConsistent that takes every square as consistent
arcConsistentAlways(m) == Return(m, TRUE)

\* count >= 2 || (count == 1 && fill(grid, s, grid[s]) != nil)
arcConsistentStep(m) ==
    LET f == Top(m)
        count == NUM_DIGITS[m.g[f.s]]
    IN  IF ~m.pend
        THEN IF count >= 2 THEN Return(m, TRUE)
             ELSE IF count = 1 THEN Call(m, 1, Frame("fill", f.s, m.g[f.s], 0))
             ELSE Return(m, FALSE)
        ELSE Return(m, m.rv)

RECURSIVE scanUnit(_, _, _, _, _)
\* the scan of one unit in dualConsistent: <<dPlaces, dplace>>; the scan
\* breaks at the second place found, dplace is the first place
scanUnit(grid, u, d, k, dplace) ==
    IF k > Len(u) THEN <<(IF dplace = -1 THEN 0 ELSE 1), dplace>>
    ELSE IF And(grid[u[k]], d) > 0
         THEN IF dplace # -1 THEN <<2, dplace>>
              ELSE scanUnit(grid, u, d, k + 1, u[k])
         ELSE scanUnit(grid, u, d, k + 1, dplace)

RECURSIVE dualFrom(_, _)
\* the loop of dualConsistent from unit k of UNITS[s] on, up to its next call
\* of fill or its return
dualFrom(m, k) ==
    LET f == Top(m)
    IN  IF k > Len(UNITS[f.s]) THEN Return(m, TRUE)
        ELSE LET sc == scanUnit(m.g, UNITS[f.s][k], f.d, 1, -1)
             IN  IF sc[1] = 0 THEN Return(m, FALSE)
                 ELSE IF sc[1] = 1 THEN Call(m, k, Frame("fill", sc[2], f.d, 0))
                 ELSE dualFrom(m, k + 1)

\* dualConsistent: k is the index in UNITS[s] of the unit whose fill runs
dualConsistentStep(m) ==
    IF ~m.pend THEN dualFrom(m, 1)
    ELSE IF ~m.rv THEN Return(m, FALSE)
    ELSE dualFrom(m, Top(m).k + 1)

\* one step of the call tree: the call on top runs to its next call or return
PropStep(m) ==
    LET fn == Top(m).fn
    IN  IF fn = "fill" THEN fillStep(m)
        ELSE IF fn = "eliminate" THEN eliminateStep(m)
        ELSE IF fn = "arcConsistent" THEN arcConsistentStep(m)
        ELSE dualConsistentStep(m)

\* the outermost call has returned
PropDone(m) == m.st = <<>>

RECURSIVE PropRun(_, _)
\* at most 2^k steps of the call tree (run by halves: the steps of a call tree
\* are too many to nest)
PropRun(m, k) ==
    IF PropDone(m) THEN m
    ELSE IF k = 0 THEN PropStep(m)
    ELSE PropRun(PropRun(m, k - 1), k - 1)

RECURSIVE PropRunAll(_)
\* the call tree run until the outermost call has returned
PropRunAll(m) == IF PropDone(m) THEN m ELSE PropRunAll(PropRun(m, 10))

\* a call from outside the call tree; the result is [ok, g]: whether the call
\* succeeded (fill: returned the grid and not nil) and the grid as it leaves it
PropCall(grid, fr) ==
    LET m == PropRunAll([g |-> grid, st |-> <<fr>>, pend |-> FALSE, rv |-> FALSE])
    IN  [ok |-> m.rv, g |-> m.g]

fill(grid, s, d) == PropCall(grid, Frame("fill", s, d, 0))

eliminate(grid, s, d) == PropCall(grid, Frame("eliminate", s, d, 0))

\* ------------------------------------------------------------ Search helpers

\* the turn of selectSquare with c >= 1 for c > 1: a filled square is selected
selectTurnAny(grid, st) ==
    LET c == NUM_DIGITS[grid[st.s]]
    IN  IF c = 2 THEN [st EXCEPT !.ret = TRUE, !.square = st.s]
        ELSE IF c >= 1 /\ c < st.mint
             THEN [s |-> st.s + 1, square |-> st.s, mint |-> c, ret |-> FALSE]
             ELSE [st EXCEPT !.s = st.s + 1]

\* one turn of the loop of selectSquare, at square st.s: square and mint are
\* the best square so far and its number of possible digits; ret is set when
\* the loop returns a square with 2 possible digits
selectTurn(grid, st) ==
    LET c == NUM_DIGITS[grid[st.s]]
    IN  IF c = 2 THEN [st EXCEPT !.ret = TRUE, !.square = st.s]
        ELSE IF c > 1 /\ c < st.mint
             THEN [s |-> st.s + 1, square |-> st.s, mint |-> c, ret |-> FALSE]
             ELSE [st EXCEPT !.s = st.s + 1]

RECURSIVE selectLoop(_, _, _)
\* the loop of selectSquare from st on, at most 2^k turns: it ends with the
\* last square or at the return of a square with 2 possible digits
selectLoop(grid, st, k) ==
    IF st.ret \/ st.s >= NN THEN st
    ELSE IF k = 0 THEN selectTurn(grid, st)
    ELSE selectLoop(grid, selectLoop(grid, st, k - 1), k - 1)

\* selectSquare: an unfilled square with the minimum number of possible
\* values, -1 when every square is filled
selectSquare(grid) ==
    selectLoop(grid, [s |-> 0, square |-> -1, mint |-> N + 1, ret |-> FALSE], 7).square

\* a recursive call at the level of its caller
sameLevel(level) == level

\* the level search passes to its recursive call
nextLevel(level) == level + 1

\* copy(dst, src) for two grids of the same length
copy(dst, src) == [j \in DOMAIN dst |-> src[j]]

\* the index in DIGITS of the next digit from di on that search tries for a
\* square with value v ((d & grid[s]) > 0), N when there is none
nextDigit(v, di) ==
    IF \E j \in di..(N - 1) : And(v, DIGITS[j]) > 0
    THEN CHOOSE j \in di..(N - 1) :
            /\ And(v, DIGITS[j]) > 0
            /\ \A j2 \in di..(j - 1) : And(v, DIGITS[j2]) = 0
    ELSE N

\* ------------------------------------------------------------ Verification

\* a nil slice
Nil == <<>>

IsNil(grid) == DOMAIN grid = {}

RECURSIVE Or(_, _)
\* a | b
Or(a, b) ==
    IF a = 0 THEN b
    ELSE IF b = 0 THEN a
    ELSE (IF a % 2 = 1 \/ b % 2 = 1 THEN 1 ELSE 0) + 2 * Or(a \div 2, b \div 2)

RECURSIVE unitDigits(_, _, _, _)
\* the inner loop of verify, for s := range u { unit_digits |= grid[s] }:
\* a range with one variable yields the indices 0..len(u)-1
unitDigits(grid, u, s, unit_digits) ==
    IF s >= Len(u) THEN unit_digits
    ELSE unitDigits(grid, u, s + 1, Or(unit_digits, grid[s]))

verify(grid, puzzle) ==
    IF IsNil(grid) THEN FALSE
    ELSE IF \E s \in DOMAIN SQUARES :
                \/ NUM_DIGITS[grid[s]] # 1
                \/ (NUM_DIGITS[puzzle[s]] = 1 /\ grid[s] # puzzle[s])
         THEN FALSE
         ELSE \A j \in DOMAIN ALL_UNITS : unitDigits(grid, ALL_UNITS[j], 0, 0) = ALL_DIGITS

\* ------------------------------------------------------------ Input
\* A gridstring is a sequence of runes (code points): '0' is 48, '1'..'9' are
\* 49..57, '.' is 46.

\* reverse: the string reversed rune-wise
reverse(str) == [k \in 1..Len(str) |-> str[Len(str) - k + 1]]

\* one turn of the loop of parseGrid, at rune index st.i (from 0): s squares
\* are set, d is the index of the rune of the last full turn; brk is set when
\* the loop breaks at s == n2
parseTurn(gridRunes, st) ==
    LET r == gridRunes[st.i + 1]
    IN  IF st.s = NN THEN [st EXCEPT !.brk = TRUE]
        ELSE IF 49 <= r /\ r <= 57
        THEN [st EXCEPT !.grid[st.s] = DIGITS[(r - 48) - 1],
                        !.s = st.s + 1, !.d = st.i, !.i = st.i + 1]
        ELSE IF r = 48 \/ r = 46
        THEN [st EXCEPT !.grid[st.s] = ALL_DIGITS,
                        !.s = st.s + 1, !.d = st.i, !.i = st.i + 1]
        ELSE [st EXCEPT !.d = st.i, !.i = st.i + 1]

RECURSIVE parseLoop(_, _, _)
\* the loop of parseGrid from st on, at most 2^k turns: it ends with the last
\* rune or at the break
parseLoop(gridRunes, st, k) ==
    IF st.brk \/ st.i >= Len(gridRunes) THEN st
    ELSE IF k = 0 THEN parseTurn(gridRunes, st)
    ELSE parseLoop(gridRunes, parseLoop(gridRunes, st, k - 1), k - 1)

RECURSIVE parseLoopAll(_, _)
\* the loop of parseGrid to its end
parseLoopAll(gridRunes, st) ==
    IF st.brk \/ st.i >= Len(gridRunes) THEN st
    ELSE parseLoopAll(gridRunes, parseLoop(gridRunes, st, 7))

\* strings.ContainsAny(string(gridRunes[d:]), ".0123456789")
containsDigitFrom(gridRunes, d) ==
    \E k \in (d + 1)..Len(gridRunes) :
        gridRunes[k] = 46 \/ (48 <= gridRunes[k] /\ gridRunes[k] <= 57)

\* parseGrid without the d++ after its loop
parseGridNoIncrement(gridString) ==
    LET l == parseLoopAll(gridString, [i |-> 0, s |-> 0, d |-> 0, brk |-> FALSE,
                                       grid |-> [j \in 0..(NN - 1) |-> 0]])
    IN  IF l.s < NN THEN [grid |-> Nil, err |-> "has too few digits"]
        ELSE IF containsDigitFrom(gridString, l.d)
        THEN [grid |-> Nil, err |-> "has more digits"]
        ELSE [grid |-> l.grid, err |-> ""]

\* parseGrid: [grid, err]; err is "" for nil, else which error it is
parseGrid(gridString) ==
    LET l == parseLoopAll(gridString, [i |-> 0, s |-> 0, d |-> 0, brk |-> FALSE,
                                       grid |-> [j \in 0..(NN - 1) |-> 0]])
    IN  IF l.s < NN THEN [grid |-> Nil, err |-> "has too few digits"]
        ELSE IF containsDigitFrom(gridString, l.d + 1)
        THEN [grid |-> Nil, err |-> "has more digits"]
        ELSE [grid |-> l.grid, err |-> ""]

\* ------------------------------------------------------------ Options
\* The options the model leaves at their defaults.

printFileStats == TRUE

printGrid == FALSE

runSearch == TRUE

verifySolution == TRUE

\* ------------------------------------------------------------ Inputs
\* Puzzles as 81 digits, 0 for a blank.

NorvigPuzzle ==
    <<  0, 0, 3, 0, 2, 0, 6, 0, 0,
        9, 0, 0, 3, 0, 5, 0, 0, 1,
        0, 0, 1, 8, 0, 6, 4, 0, 0,
        0, 0, 8, 1, 0, 2, 9, 0, 0,
        7, 0, 0, 0, 0, 0, 0, 0, 8,
        0, 0, 6, 7, 0, 8, 2, 0, 0,
        0, 0, 2, 6, 0, 9, 5, 0, 0,
        8, 0, 0, 2, 0, 3, 0, 0, 9,
        0, 0, 5, 0, 1, 0, 3, 0, 0 >>

NorvigSolution ==
    <<  4, 8, 3, 9, 2, 1, 6, 5, 7,
        9, 6, 7, 3, 4, 5, 8, 2, 1,
        2, 5, 1, 8, 7, 6, 4, 9, 3,
        5, 4, 8, 1, 3, 2, 9, 7, 6,
        7, 2, 9, 5, 6, 4, 1, 3, 8,
        1, 3, 6, 7, 9, 8, 2, 4, 5,
        3, 7, 2, 6, 8, 9, 5, 1, 4,
        8, 1, 4, 2, 5, 3, 7, 6, 9,
        6, 9, 5, 4, 1, 7, 3, 8, 2 >>

HardPuzzle ==
    <<  0, 0, 7, 0, 6, 0, 8, 2, 0,
        0, 0, 2, 0, 0, 8, 0, 0, 0,
        0, 5, 0, 0, 0, 0, 0, 1, 0,
        8, 2, 0, 0, 0, 0, 1, 0, 0,
        0, 9, 0, 5, 0, 0, 0, 0, 0,
        0, 4, 6, 9, 1, 0, 0, 5, 8,
        2, 8, 0, 0, 4, 3, 0, 0, 0,
        0, 0, 0, 0, 9, 0, 0, 0, 0,
        0, 0, 4, 8, 0, 0, 0, 0, 0 >>

HardSolution ==
    <<  4, 1, 7, 3, 6, 5, 8, 2, 9,
        9, 3, 2, 1, 7, 8, 6, 4, 5,
        6, 5, 8, 4, 2, 9, 3, 1, 7,
        8, 2, 5, 7, 3, 6, 1, 9, 4,
        7, 9, 1, 5, 8, 4, 2, 6, 3,
        3, 4, 6, 9, 1, 2, 7, 5, 8,
        2, 8, 9, 6, 4, 3, 5, 7, 1,
        5, 7, 3, 2, 9, 1, 4, 8, 6,
        1, 6, 4, 8, 5, 7, 9, 3, 2 >>

ContraPuzzle ==
    <<  0, 2, 3, 0, 2, 0, 6, 0, 0,
        9, 0, 0, 3, 0, 5, 0, 0, 1,
        0, 0, 1, 8, 0, 6, 4, 0, 0,
        0, 0, 8, 1, 0, 2, 9, 0, 0,
        7, 0, 0, 0, 0, 0, 0, 0, 8,
        0, 0, 6, 7, 0, 8, 2, 0, 0,
        0, 0, 2, 6, 0, 9, 5, 0, 0,
        8, 0, 0, 2, 0, 3, 0, 0, 9,
        0, 0, 5, 0, 1, 0, 3, 0, 0 >>

ContraPuzzle2 ==
    <<  0, 0, 3, 2, 2, 0, 6, 0, 0,
        9, 0, 0, 3, 0, 5, 0, 0, 1,
        0, 0, 1, 8, 0, 6, 4, 0, 0,
        0, 0, 8, 1, 0, 2, 9, 0, 0,
        7, 0, 0, 0, 0, 0, 0, 0, 8,
        0, 0, 6, 7, 0, 8, 2, 0, 0,
        0, 0, 2, 6, 0, 9, 5, 0, 0,
        8, 0, 0, 2, 0, 3, 0, 0, 9,
        0, 0, 5, 0, 1, 0, 3, 0, 0 >>

ContraPuzzle3 ==
    <<  2, 0, 3, 0, 2, 0, 6, 0, 0,
        9, 0, 0, 3, 0, 5, 0, 0, 1,
        0, 0, 1, 8, 0, 6, 4, 0, 0,
        0, 0, 8, 1, 0, 2, 9, 0, 0,
        7, 0, 0, 0, 0, 0, 0, 0, 8,
        0, 0, 6, 7, 0, 8, 2, 0, 0,
        0, 0, 2, 6, 0, 9, 5, 0, 0,
        8, 0, 0, 2, 0, 3, 0, 0, 9,
        0, 0, 5, 0, 1, 0, 3, 0, 0 >>

BlankPuzzle == [k \in 1..NN |-> 0]

\* HardPuzzle with one more given, 5 at square 62 (squares from 0): it has no
\* solution, and no two of its givens are peers
UnsolvablePuzzle == [HardPuzzle EXCEPT ![63] = 5]

\* HardPuzzle with 5 given at square 15: no solution either
UnsolvablePuzzle2 == [HardPuzzle EXCEPT ![16] = 5]

\* the gridstring of a puzzle, blanks written '0'
Line(digits) == [k \in 1..Len(digits) |-> 48 + digits[k]]

\* the gridstring of a puzzle, blanks written '.'
DotLine(digits) == [k \in 1..Len(digits) |-> IF digits[k] = 0 THEN 46 ELSE 48 + digits[k]]

\* " # x": a comment without digits
Comment == <<32, 35, 32, 120>>

\* the grid of a completed puzzle given as 81 digits 1..9
GridOf(digits) == [s \in 0..(NN - 1) |-> 2 ^ (digits[s + 1] - 1)]

\* the files: each a sequence of lines
Files ==
    { <<Line(NorvigPuzzle)>>,
      <<DotLine(BlankPuzzle)>>,
      <<Line(HardPuzzle)>>,
      <<Line(ContraPuzzle)>>,
      <<Line(ContraPuzzle2)>>,
      <<DotLine(ContraPuzzle3)>>,
      <<Line(UnsolvablePuzzle)>>,
      <<Line(UnsolvablePuzzle2)>>,
      <<DotLine(NorvigPuzzle) \o Comment, Line(HardPuzzle)>>,
      <<Line(NorvigPuzzle), SubSeq(Line(HardPuzzle), 1, NN - 1)>>,
      <<Line(NorvigPuzzle) \o <<49>>, Line(HardPuzzle)>> }

\* -R<number> is drawn from 1..MaxRepeat
MaxRepeat == 2

\* the options of the command lines: -r, -p and -R; a puzzle is repeated
\* with -p, and -r comes alone
CommandLines ==
    { o \in [r : BOOLEAN, p : BOOLEAN, R : 1..MaxRepeat] :
        /\ o.r => ~o.p
        /\ o.R > 1 => (o.p /\ ~o.r) }

\* ------------------------------------------------------------ State

VARIABLES
    file,              \* the lines of the file named on the command line
    reversePuzzle,     \* -r
    printPuzzleStats,  \* -p
    repeat,            \* -R
    backtracks,        \* the global count of backtracks
    pc,                \* where the program stands
    lineNo,            \* readFile: the lines scanned so far
    gridString,        \* readFile, parseGrid: the line parsed last
    parsed,            \* the result of the last parseGrid: [grid, err]
    grids,             \* readFile, solveList: the puzzles
    err,               \* solveFile: the error of readFile ("" for nil)
    puzzleIdx,         \* solveList: g
    rep,               \* solveList: i
    thePuzzle,         \* solveList: puzzle, the copy of the original grid
    gridpool,          \* solveList: one grid per level of search
    initSq,            \* initialize: s
    initGrid,          \* initialize: grid
    stack,             \* the calls of search in progress, level 0 first
    solution,          \* solveList: solution (a grid or Nil)
    out,               \* what was printed
    verified,          \* the last call of verify by solveList: its arguments and result
    lastFill,          \* history: the last call of fill by initialize or search
    initFailedAt,      \* history: the first square whose fill failed in this initialize, or -1
    runs,              \* history: solution and backtracks of each repetition of the puzzle
    prop               \* a call of fill or eliminate run step by step: its machine m
                       \* and the grid it was called on

vars ==
    <<file, reversePuzzle, printPuzzleStats, repeat, backtracks, pc, lineNo,
      gridString, parsed, grids, err, puzzleIdx, rep, thePuzzle, gridpool, initSq,
      initGrid, stack, solution, out, verified, lastFill, initFailedAt, runs, prop>>

\* make([]int, N*N)
ZeroGrid == [j \in 0..(NN - 1) |-> 0]

NoFill == [at |-> "none", level |-> -1, in |-> Nil, s |-> -1, d |-> 0, ok |-> FALSE, out |-> Nil]

NoVerify == [called |-> FALSE, grid |-> Nil, puzzle |-> Nil, result |-> FALSE]

\* no call of fill or eliminate is run step by step
NoProp == [m |-> [g |-> Nil, st |-> <<>>, pend |-> FALSE, rv |-> FALSE], in |-> Nil]

\* the grid a reference names: -1 is the grid of initialize, k >= 0 is gridpool[k][:]
Deref(ref) == IF ref = -1 THEN initGrid ELSE gridpool[ref]

\* everything but the inputs, as the program starts
InitRest ==
    /\ backtracks = 0
    /\ lineNo = 0
    /\ parsed = [grid |-> Nil, err |-> ""]
    /\ grids = <<>>
    /\ err = ""
    /\ puzzleIdx = 0
    /\ rep = 0
    /\ gridpool = [l \in 0..(NN - 1) |-> ZeroGrid]
    /\ initSq = 0
    /\ initGrid = Nil
    /\ stack = <<>>
    /\ out = <<>>
    /\ verified = NoVerify
    /\ lastFill = NoFill
    /\ initFailedAt = -1
    /\ runs = <<>>

Init ==
    /\ file \in Files
    /\ \E o \in CommandLines :
        /\ reversePuzzle = o.r
        /\ printPuzzleStats = o.p
        /\ repeat = o.R
    /\ pc = "readFile"
    /\ gridString = <<>>
    /\ thePuzzle = ZeroGrid
    /\ solution = Nil
    /\ prop = NoProp
    /\ InitRest

\* ------------------------------------------------------------ readFile

\* one turn of the scanner loop of readFile: parse the line, append its grid
\* and, with -r, parse the reversed line; an error ends readFile and solveFile
ReadLine ==
    /\ pc = "readFile"
    /\ lineNo < Len(file)
    /\ LET str == file[lineNo + 1]
           p == parseGrid(str)
           pr == parseGrid(reverse(str))
           failed == p.err # "" \/ (reversePuzzle /\ pr.err # "")
           e == IF p.err # "" THEN p.err ELSE pr.err
       IN  /\ gridString' = IF p.err = "" /\ reversePuzzle THEN reverse(str) ELSE str
           /\ parsed' = IF p.err = "" /\ reversePuzzle THEN pr ELSE p
           /\ grids' = IF failed THEN <<>> ELSE Append(grids, p.grid)
           /\ err' = IF failed THEN e ELSE err
           /\ out' = IF failed THEN Append(out, [kind |-> "error", text |-> e]) ELSE out
           /\ pc' = IF failed THEN "done" ELSE pc
           /\ lineNo' = lineNo + 1
    /\ UNCHANGED <<prop, file, reversePuzzle, printPuzzleStats, repeat, backtracks, puzzleIdx,
                   rep, thePuzzle, gridpool, initSq, initGrid, stack, solution, verified,
                   lastFill, initFailedAt, runs>>

\* the scanner is at the end of the file: readFile returns the grids and
\* solveFile calls solveList, which makes puzzle and gridpool
ReadReturn ==
    /\ pc = "readFile"
    /\ lineNo = Len(file)
    /\ pc' = "solveList"
    /\ thePuzzle' = ZeroGrid
    /\ gridpool' = [l \in 0..(NN - 1) |-> ZeroGrid]
    /\ puzzleIdx' = 0
    /\ rep' = 0
    /\ UNCHANGED <<prop, file, reversePuzzle, printPuzzleStats, repeat, backtracks, lineNo,
                   gridString, parsed, grids, err, initSq, initGrid, stack, solution,
                   out, verified, lastFill, initFailedAt, runs>>

\* ------------------------------------------------------------ solveList

\* printStats that leaves backtracks as it is
printStatsNoReset(o, nGrids, name) ==
    [out |-> Append(o, [kind |-> "stats", nGrids |-> nGrids,
                        backtracks |-> backtracks, name |-> name]),
     backtracks |-> backtracks]

\* printStats: print the line and reset backtracks; [out, backtracks]
printStats(o, nGrids, name) ==
    [out |-> Append(o, [kind |-> "stats", nGrids |-> nGrids,
                        backtracks |-> backtracks, name |-> name]),
     backtracks |-> 0]

\* solveList: the head of the loops; the next repetition of the puzzle starts
\* with initialize, whose grid is made with ALL_DIGITS in every square
StartRun ==
    /\ pc = "solveList"
    /\ puzzleIdx < Len(grids)
    /\ thePuzzle' = IF rep = 0 THEN copy(thePuzzle, grids[puzzleIdx + 1]) ELSE thePuzzle
    /\ runs' = IF rep = 0 THEN <<>> ELSE runs
    /\ initGrid' = [j \in 0..(NN - 1) |-> ALL_DIGITS]
    /\ initSq' = 0
    /\ initFailedAt' = -1
    /\ pc' = "initialize"
    /\ UNCHANGED <<prop, file, reversePuzzle, printPuzzleStats, repeat, backtracks, lineNo,
                   gridString, parsed, grids, err, puzzleIdx, rep, gridpool, stack,
                   solution, out, verified, lastFill>>

\* solveList returns; solveFile prints the stats of the file
SolveListReturn ==
    /\ pc = "solveList"
    /\ puzzleIdx >= Len(grids)
    /\ LET p == printStats(out, Len(grids) * repeat, "file")
       IN  /\ out' = IF printFileStats THEN p.out ELSE out
           /\ backtracks' = IF printFileStats THEN p.backtracks ELSE backtracks
    /\ pc' = "done"
    /\ UNCHANGED <<prop, file, reversePuzzle, printPuzzleStats, repeat, lineNo, gridString,
                   parsed, grids, err, puzzleIdx, rep, thePuzzle, gridpool, initSq,
                   initGrid, stack, solution, verified, lastFill, initFailedAt, runs>>

\* ------------------------------------------------------------ initialize

\* one turn of the loop of initialize over SQUARES: fill the square when the
\* puzzle gives it; what fill returns is dropped
InitStep ==
    /\ pc = "initialize"
    /\ initSq < NN
    /\ LET given == grids[puzzleIdx + 1][initSq]
           r == fill(initGrid, initSq, given)
       IN  IF given # ALL_DIGITS
           THEN /\ initGrid' = r.g
                /\ lastFill' = [at |-> "initialize", level |-> -1, in |-> initGrid,
                                s |-> initSq, d |-> given, ok |-> r.ok, out |-> r.g]
                /\ initFailedAt' = IF ~r.ok /\ initFailedAt = -1 THEN initSq
                                   ELSE initFailedAt
           ELSE UNCHANGED <<initGrid, lastFill, initFailedAt>>
    /\ initSq' = initSq + 1
    /\ UNCHANGED <<prop, file, reversePuzzle, printPuzzleStats, repeat, backtracks, pc, lineNo,
                   gridString, parsed, grids, err, puzzleIdx, rep, thePuzzle, gridpool,
                   stack, solution, out, verified, runs>>

\* a call of search: the frame of the call when it selects a square
SearchFrame(level, ref, grid, s) ==
    [level |-> level, in |-> ref, s |-> s, di |-> 0, gin |-> grid]

\* initialize returns its grid, and solveList calls search on it at level 0:
\* with no square to select search returns the grid, else its loop starts
InitReturn ==
    /\ pc = "initialize"
    /\ initSq = NN
    /\ LET s == selectSquare(initGrid)
       IN  IF ~runSearch \/ s = -1
           THEN /\ solution' = initGrid
                /\ pc' = "report"
                /\ UNCHANGED stack
           ELSE /\ stack' = <<SearchFrame(0, -1, initGrid, s)>>
                /\ pc' = "search"
                /\ UNCHANGED solution
    /\ UNCHANGED <<prop, file, reversePuzzle, printPuzzleStats, repeat, backtracks, lineNo,
                   gridString, parsed, grids, err, puzzleIdx, rep, thePuzzle, gridpool,
                   initSq, initGrid, out, verified, lastFill, initFailedAt, runs>>

\* ------------------------------------------------------------ search
\* A frame of stack is a call of search inside its loop: level, the reference
\* in of its grid, the square s it selected, the index di in DIGITS of the
\* next digit of the loop, and (history) gin, its grid as the call began.

TopFrame == stack[Len(stack)]

\* one turn of the loop of the innermost search that finds a possible digit d:
\* copy the grid into gridpool[level], fill s with d there and call search on
\* the result at the next level.  A nil result counts a backtrack; a call with
\* no square to select returns its grid, which every caller returns at once.
Trial ==
    /\ pc = "search"
    /\ stack # <<>>
    /\ LET f == TopFrame
           j == nextDigit(Deref(f.in)[f.s], f.di)
       IN  /\ j < N
           /\ IF f.level \notin DOMAIN gridpool
              THEN \* index out of range
                   /\ pc' = "panic"
                   /\ UNCHANGED <<gridpool, stack, solution, backtracks, lastFill>>
              ELSE LET src == Deref(f.in)
                       r == fill(copy(gridpool[f.level], src), f.s, DIGITS[j])
                       s2 == selectSquare(r.g)
                       turned == [stack EXCEPT ![Len(stack)].di = j + 1]
                   IN  /\ gridpool' = [gridpool EXCEPT ![f.level] = r.g]
                       /\ lastFill' = [at |-> "search", level |-> f.level, in |-> src,
                                       s |-> f.s, d |-> DIGITS[j], ok |-> r.ok,
                                       out |-> r.g]
                       /\ IF ~r.ok
                          THEN /\ backtracks' = backtracks + 1
                               /\ stack' = turned
                               /\ UNCHANGED <<pc, solution>>
                          ELSE IF s2 = -1
                          THEN /\ solution' = r.g
                               /\ stack' = <<>>
                               /\ pc' = "report"
                               /\ UNCHANGED backtracks
                          ELSE /\ stack' = Append(turned,
                                      SearchFrame(nextLevel(f.level), f.level, r.g, s2))
                               /\ UNCHANGED <<pc, solution, backtracks>>
    /\ UNCHANGED <<prop, file, reversePuzzle, printPuzzleStats, repeat, lineNo, gridString,
                   parsed, grids, err, puzzleIdx, rep, thePuzzle, initSq, initGrid, out,
                   verified, initFailedAt, runs>>

\* the loop of the innermost search has no digit left: it returns nil; its
\* caller counts a backtrack, and solveList gets nil from level 0
Exhausted ==
    /\ pc = "search"
    /\ stack # <<>>
    /\ nextDigit(Deref(TopFrame.in)[TopFrame.s], TopFrame.di) = N
    /\ stack' = SubSeq(stack, 1, Len(stack) - 1)
    /\ IF Len(stack) = 1
       THEN /\ solution' = Nil
            /\ pc' = "report"
            /\ UNCHANGED backtracks
       ELSE /\ backtracks' = backtracks + 1
            /\ UNCHANGED <<pc, solution>>
    /\ UNCHANGED <<prop, file, reversePuzzle, printPuzzleStats, repeat, lineNo, gridString,
                   parsed, grids, err, puzzleIdx, rep, thePuzzle, gridpool, initSq,
                   initGrid, out, verified, lastFill, initFailedAt, runs>>

\* ------------------------------------------------------------ solveList, after search

\* printGrids: the line that tells whether the solution verifies
printGrids(o, name, puzzle, sol) ==
    LET shown == IF IsNil(sol) THEN ZeroGrid ELSE sol
    IN  Append(o, [kind |-> "grids", name |-> name,
                   solfail |-> IF verify(shown, puzzle) THEN "Solution:" ELSE "FAILED:"])

\* search has returned: print the stats of the puzzle with -p, verify the
\* solution of the first repetition and print the grids when it fails, then
\* go on with the next repetition or puzzle
Report ==
    /\ pc = "report"
    /\ LET p == printStats(out, 1, puzzleIdx + 1)
           out1 == IF printPuzzleStats THEN p.out ELSE out
           called == rep = 0 /\ ~printGrid /\ verifySolution
           v == verify(solution, thePuzzle)
       IN  /\ backtracks' = IF printPuzzleStats THEN p.backtracks ELSE backtracks
           /\ verified' = IF called
                          THEN [called |-> TRUE, grid |-> solution,
                                puzzle |-> thePuzzle, result |-> v]
                          ELSE verified
           /\ out' = IF rep = 0 /\ (printGrid \/ (verifySolution /\ ~v))
                     THEN printGrids(out1, puzzleIdx + 1, grids[puzzleIdx + 1], solution)
                     ELSE out1
    /\ runs' = Append(runs, [solution |-> solution, backtracks |-> backtracks])
    /\ rep' = IF rep + 1 < repeat THEN rep + 1 ELSE 0
    /\ puzzleIdx' = IF rep + 1 < repeat THEN puzzleIdx ELSE puzzleIdx + 1
    /\ pc' = "solveList"
    /\ UNCHANGED <<prop, file, reversePuzzle, printPuzzleStats, repeat, lineNo, gridString,
                   parsed, grids, err, thePuzzle, gridpool, initSq, initGrid, stack,
                   solution, lastFill, initFailedAt>>

Next ==
    \/ ReadLine
    \/ ReadReturn
    \/ StartRun
    \/ SolveListReturn
    \/ InitStep
    \/ InitReturn
    \/ Trial
    \/ Exhausted
    \/ Report

Spec == Init /\ [][Next]_vars

\* ------------------------------------------------------------ parseGrid alone
\* parseGrid applied to one line drawn from ParseLines.

\* seq with the runes ins put in after its first pos runes
InsertAt(seq, pos, ins) == SubSeq(seq, 1, pos) \o ins \o SubSeq(seq, pos + 1, Len(seq))

\* gridstrings of 80 and 81 digits and blanks, with other runes before,
\* between and after them, and with what may follow them; the empty line; a
\* line of two puzzles
ParseLines ==
    { InsertAt(SubSeq(base, 1, cut), pos, ins) \o suf :
        base \in {Line(NorvigPuzzle), DotLine(HardPuzzle), DotLine(BlankPuzzle)},
        cut \in {NN - 1, NN},
        pos \in {0, 40},
        ins \in {<<>>, <<32, 124, 32>>},
        suf \in {<<>>, Comment, <<49>>, <<46>>, <<48>>, Comment \o <<57>>, <<10>>} }
    \cup { <<>>, Line(NorvigPuzzle) \o Line(HardPuzzle) }

InitParse ==
    /\ file = <<>>
    /\ reversePuzzle = FALSE
    /\ printPuzzleStats = FALSE
    /\ repeat = 1
    /\ pc = "parse"
    /\ gridString \in ParseLines
    /\ thePuzzle = ZeroGrid
    /\ solution = Nil
    /\ prop = NoProp
    /\ InitRest

ParseLine ==
    /\ pc = "parse"
    /\ parsed' = parseGrid(gridString)
    /\ pc' = "parsed"
    /\ UNCHANGED <<prop, file, reversePuzzle, printPuzzleStats, repeat, backtracks, lineNo,
                   gridString, grids, err, puzzleIdx, rep, thePuzzle, gridpool, initSq,
                   initGrid, stack, solution, out, verified, lastFill, initFailedAt, runs>>

NextParse == ParseLine

SpecParse == InitParse /\ [][NextParse]_vars

\* ------------------------------------------------------------ verify alone
\* verify applied to one grid and one puzzle drawn from VerifyGrids and
\* VerifyPuzzles.

Replaced(grid, s, v) == [grid EXCEPT ![s] = v]

Swapped(grid, a, b) == [grid EXCEPT ![a] = grid[b], ![b] = grid[a]]

\* nil, two solved grids, and a solved grid with one square changed or two
\* squares of a row or of a column swapped
VerifyGrids ==
    {Nil, GridOf(NorvigSolution), GridOf(HardSolution)}
    \cup { Replaced(GridOf(NorvigSolution), s, v) :
             s \in {0, 8, 40, 80}, v \in {0, 1, 2, 3, 16, 256, ALL_DIGITS} }
    \cup { Swapped(GridOf(NorvigSolution), ab[1], ab[2]) :
             ab \in {<<0, 1>>, <<9, 10>>, <<40, 44>>, <<72, 80>>, <<0, 9>>, <<30, 39>>} }

VerifyPuzzles ==
    { parseGrid(DotLine(BlankPuzzle)).grid,
      parseGrid(Line(NorvigPuzzle)).grid,
      parseGrid(Line(HardPuzzle)).grid }

InitVerify ==
    /\ file = <<>>
    /\ reversePuzzle = FALSE
    /\ printPuzzleStats = FALSE
    /\ repeat = 1
    /\ pc = "verify"
    /\ gridString = <<>>
    /\ thePuzzle \in VerifyPuzzles
    /\ solution \in VerifyGrids
    /\ prop = NoProp
    /\ InitRest

VerifyGrid ==
    /\ pc = "verify"
    /\ verified' = [called |-> TRUE, grid |-> solution, puzzle |-> thePuzzle,
                    result |-> verify(solution, thePuzzle)]
    /\ pc' = "verified"
    /\ UNCHANGED <<prop, file, reversePuzzle, printPuzzleStats, repeat, backtracks, lineNo,
                   gridString, parsed, grids, err, puzzleIdx, rep, thePuzzle, gridpool,
                   initSq, initGrid, stack, solution, out, lastFill, initFailedAt, runs>>

NextVerify == VerifyGrid

SpecVerify == InitVerify /\ [][NextVerify]_vars

\* ------------------------------------------------------------ fill and eliminate alone
\* One call of fill or eliminate, on a grid drawn from PropGrids, run one step
\* of its call tree at a time.

\* the grid of initialize for NorvigPuzzle when its loop has reached square 68
\* (squares from 0), whose given 3 is filled next
NorvigAtSquare68 ==
    [s \in 0..(NN - 1) |->
    <<   24, 128,   4, 264,   2,   1,  32, 336, 336,
        256,  32,  72,   4,  72,  16, 128,   2,   1,
          2,  80,   1, 128, 320,  32,   8, 340, 340,
         28,  28, 128,   1,  60,   2, 256, 124, 124,
         64,   2, 280, 280, 316,  12,   5,  61, 128,
         29, 285,  32,  64, 284, 128,   2,  29,  28,
         13,  77,   2,  32, 205, 256,  16, 205,  76,
        128, 349, 344,   2,  93,  76,  69, 365, 364,
         61, 349, 344,  24, 221,  76,  69, 493,   2 >>[s + 1]]

\* grids with values in 0..ALL_DIGITS: all digits possible everywhere; puzzles
\* as parsed, solvable and contradictory; a grid of initialize with givens yet
\* to fill; two and three possible digits everywhere; a grid with an empty
\* square; a solved grid with one square opened
PropGrids ==
    { parseGrid(Line(BlankPuzzle)).grid,
      parseGrid(Line(NorvigPuzzle)).grid,
      parseGrid(Line(HardPuzzle)).grid,
      parseGrid(Line(ContraPuzzle)).grid,
      NorvigAtSquare68,
      [j \in 0..(NN - 1) |-> 3],
      [j \in 0..(NN - 1) |-> 7],
      Replaced(parseGrid(Line(BlankPuzzle)).grid, 1, 0),
      Replaced(GridOf(NorvigSolution), 0, ALL_DIGITS) }

\* the calls: fill or eliminate, of a square and a digit
PropFrames ==
    { Frame(fn, s, DIGITS[j], 0) : fn \in {"fill", "eliminate"}, s \in {0, 40, 68}, j \in {0, 2, 8} }

InitProp ==
    /\ file = <<>>
    /\ reversePuzzle = FALSE
    /\ printPuzzleStats = FALSE
    /\ repeat = 1
    /\ pc = "propagate"
    /\ gridString = <<>>
    /\ thePuzzle = ZeroGrid
    /\ solution = Nil
    /\ \E grid \in PropGrids : \E fr \in PropFrames :
          prop = [m |-> [g |-> grid, st |-> <<fr>>, pend |-> FALSE, rv |-> FALSE],
                  in |-> grid]
    /\ InitRest

\* the call on top of the call tree runs to its next call or return
Propagate ==
    /\ pc = "propagate"
    /\ ~PropDone(prop.m)
    /\ prop' = [prop EXCEPT !.m = PropStep(prop.m)]
    /\ UNCHANGED <<file, reversePuzzle, printPuzzleStats, repeat, backtracks, pc, lineNo,
                   gridString, parsed, grids, err, puzzleIdx, rep, thePuzzle, gridpool,
                   initSq, initGrid, stack, solution, out, verified, lastFill,
                   initFailedAt, runs>>

NextProp == Propagate

\* the call is not stopped: the program runs on while it has a step to take
SpecProp == InitProp /\ [][NextProp]_vars /\ WF_vars(NextProp)

\* ------------------------------------------------------------ Properties

\* no square of the grid has an empty candidate set
NoEmptyCell(grid) == \A s \in 0..(NN - 1) : grid[s] # 0

\* every digit is a candidate of some square of unit u
UnitCover(grid, u) ==
    \A j \in 0..(N - 1) : \E k \in 1..Len(u) : And(grid[u[k]], DIGITS[j]) > 0

\* the unit-coverage invariant of a grid
Covered(grid) ==
    /\ NoEmptyCell(grid)
    /\ \A j \in DOMAIN ALL_UNITS : UnitCover(grid, ALL_UNITS[j])

\* every square holds one digit
Complete(grid) == \A s \in 0..(NN - 1) : NUM_DIGITS[grid[s]] = 1

\* a completed grid in which every unit holds each digit exactly once
IsSolved(grid) ==
    /\ Complete(grid)
    /\ \A j \in DOMAIN ALL_UNITS :
          { grid[ALL_UNITS[j][k]] : k \in 1..N } = { DIGITS[b] : b \in 0..(N - 1) }

\* every given digit of the puzzle is in the grid
Retains(grid, puzzle) ==
    \A s \in 0..(NN - 1) : NUM_DIGITS[puzzle[s]] = 1 => grid[s] = puzzle[s]

\* the puzzle has a solution among the known ones
HasSolution(puzzle) ==
    \E digits \in {NorvigSolution, HardSolution} :
        IsSolved(GridOf(digits)) /\ Retains(GridOf(digits), puzzle)

\* the same digit is given twice in one row
Contradictory(puzzle) ==
    \E r \in 0..(N - 1) : \E a, b \in 0..(N - 1) :
        /\ a # b
        /\ NUM_DIGITS[puzzle[N * r + a]] = 1
        /\ puzzle[N * r + a] = puzzle[N * r + b]

\* the number of squares with two or more candidates
Multi(grid) == Cardinality({ s \in 0..(NN - 1) : NUM_DIGITS[grid[s]] >= 2 })

\* the puzzle being solved
CurPuzzle == grids[puzzleIdx + 1]

\* C1: verify returns true exactly when the grid is not nil, every square has
\* one candidate, every given of the puzzle is kept and every one of the 27
\* units covers all nine digits.
C1_VerifyContract ==
    verified.called =>
        (verified.result <=>
            /\ ~IsNil(verified.grid)
            /\ Complete(verified.grid)
            /\ Retains(verified.grid, verified.puzzle)
            /\ \A j \in DOMAIN ALL_UNITS : UnitCover(verified.grid, ALL_UNITS[j]))

\* C2: for a puzzle that has a solution, search returns a grid that is not
\* nil, is completed with every unit a permutation of the digits and keeps the
\* givens; for the Norvig example it is the known solution.
C2_SolvesSolvable ==
    (pc = "report" /\ HasSolution(CurPuzzle)) =>
        /\ ~IsNil(solution)
        /\ IsSolved(solution)
        /\ Retains(solution, CurPuzzle)
        /\ (CurPuzzle = parseGrid(Line(NorvigPuzzle)).grid
                => solution = GridOf(NorvigSolution))

C2_Witness ==
    /\ pc = "report"
    /\ CurPuzzle = parseGrid(Line(HardPuzzle)).grid
    /\ backtracks >= 3
    /\ solution = GridOf(HardSolution)

\* C3: a puzzle with the same digit given twice in one row is solved to nil,
\* and without a panic.
C3_ContradictoryIsNil ==
    /\ pc # "panic"
    /\ (pc = "report" /\ Contradictory(CurPuzzle)) => IsNil(solution)

\* C4: once a fill of initialize has failed, no fill is tried for a later
\* square and initialize returns nil.
C4_InitStopsAtFailure ==
    initFailedAt # -1 =>
        /\ lastFill.at = "initialize" => lastFill.s = initFailedAt
        /\ pc # "initialize" => IsNil(initGrid)

\* a digit or a blank
Meaningful(r) == r = 46 \/ (48 <= r /\ r <= 57)

\* C5: parseGrid succeeds exactly when the line has 81 digits and blanks; with
\* fewer it reports too few, with more it reports more; on success square j
\* is the bit of the j-th of them when that is a digit 1-9 and ALL_DIGITS when
\* it is '0' or '.'.
C5_ParseContract ==
    pc = "parsed" =>
        LET ms == SelectSeq(gridString, Meaningful)
        IN  /\ parsed.err = "" <=> Len(ms) = NN
            /\ Len(ms) < NN => parsed.err = "has too few digits"
            /\ Len(ms) > NN => parsed.err = "has more digits"
            /\ parsed.err # "" => IsNil(parsed.grid)
            /\ parsed.err = "" =>
                 \A j \in 0..(NN - 1) :
                    parsed.grid[j] = IF ms[j + 1] >= 49 THEN 2 ^ (ms[j + 1] - 49)
                                     ELSE ALL_DIGITS

C5_Witness ==
    /\ pc = "parsed"
    /\ parsed.err = ""
    /\ Len(gridString) > NN
    /\ \E j \in 0..(NN - 1) : parsed.grid[j] = ALL_DIGITS
    /\ \E j \in 0..(NN - 1) : parsed.grid[j] = 256

\* C6: with -r the puzzles to solve are, for every line, the puzzle of the
\* line and the puzzle of the reversed line.
C6_ReverseAlsoSolved ==
    (pc \notin {"readFile", "parse", "parsed", "verify", "verified"}
        /\ reversePuzzle /\ err = "") =>
        /\ Len(grids) = 2 * Len(file)
        /\ \A k \in 1..Len(file) :
              /\ grids[2 * k - 1] = parseGrid(file[k]).grid
              /\ grids[2 * k] = parseGrid(reverse(file[k])).grid

\* C7: with the backtrack counter reset between the repetitions of a puzzle
\* (-p) and the grid pool left as it is, every repetition returns the same
\* grid (or nil) and counts the same backtracks.
C7_Reproducible ==
    printPuzzleStats => \A a, b \in DOMAIN runs : runs[a] = runs[b]

C7_Witness ==
    /\ printPuzzleStats
    /\ Len(runs) = 2
    /\ runs[1].backtracks >= 3
    /\ ~IsNil(runs[2].solution)
    /\ gridpool[1] # ZeroGrid

\* C8: the call of search at level k is the (k+1)-th of the stack, its grid is
\* the grid of initialize (k = 0) or pool slot k-1, and that grid is as it
\* was when the call began, whatever the call and its descendants have written
\* since; the trial made last started from a copy of that grid.
C8_StackDiscipline ==
    /\ \A k \in DOMAIN stack :
          /\ stack[k].level = k - 1
          /\ stack[k].in = k - 2
          /\ Deref(stack[k].in) = stack[k].gin
    /\ (pc = "search" /\ lastFill.at = "search" /\ lastFill.level < Len(stack))
          => lastFill.in = stack[lastFill.level + 1].gin

C8_Witness ==
    /\ pc = "search"
    /\ Len(stack) >= 3
    /\ lastFill.at = "search"
    /\ ~lastFill.ok
    /\ lastFill.level = Len(stack) - 1
    /\ lastFill.out # lastFill.in
    /\ gridpool[lastFill.level] = lastFill.out
    /\ Deref(stack[Len(stack)].in) = lastFill.in

\* C9 as claimed: a fill that succeeds on a grid that satisfies the
\* unit-coverage invariant leaves a grid that satisfies it.
C9_FillKeepsCoverage ==
    (lastFill.at # "none" /\ lastFill.ok /\ Covered(lastFill.in))
        => Covered(lastFill.out)

\* C9 as amended: a fill that succeeds on a grid with no empty square leaves
\* no empty square, and leaves the digit it filled in its square and in none
\* of the square's peers.
C9_FillKeepsCells ==
    (lastFill.at # "none" /\ lastFill.ok /\ NoEmptyCell(lastFill.in)) =>
        /\ NoEmptyCell(lastFill.out)
        /\ lastFill.out[lastFill.s] = lastFill.d
        /\ \A k \in 1..Len(PEERS[lastFill.s]) :
              And(lastFill.out[PEERS[lastFill.s][k]], lastFill.d) = 0

C9_Witness ==
    /\ lastFill.at = "search"
    /\ lastFill.ok
    /\ Covered(lastFill.in)
    /\ NoEmptyCell(lastFill.out)
    /\ ~Covered(lastFill.out)

\* C10: search never indexes the pool out of range: the level of every call
\* is in 0..80, because the squares with two or more candidates are at most
\* 81 less the level and get fewer from each level to the next.
C10_DepthBounded ==
    /\ pc # "panic"
    /\ \A k \in DOMAIN stack :
          /\ stack[k].level \in 0..(NN - 1)
          /\ stack[k].level \in DOMAIN gridpool
          /\ Multi(Deref(stack[k].in)) >= 1
          /\ stack[k].level + Multi(Deref(stack[k].in)) <= NN
          /\ k > 1 => Multi(Deref(stack[k].in)) < Multi(Deref(stack[k - 1].in))

C10_Witness ==
    /\ pc = "search"
    /\ initFailedAt # -1
    /\ Len(stack) >= 5
    /\ stack[Len(stack)].level = Len(stack) - 1

\* every candidate of a is a candidate of b
SubBits(a, b) == \A j \in 0..(N - 1) : And(a, DIGITS[j]) > 0 => And(b, DIGITS[j]) > 0

\* no square gains a digit in the step
PropMonotone ==
    \A s \in DOMAIN prop.m.g : SubBits(prop'.m.g[s], prop.m.g[s])

\* a step that enters eliminate with d possible for grid[s] takes d from
\* grid[s] and changes no other square
EliminateTakesOneBit ==
    (~PropDone(prop.m) /\ Top(prop.m).fn = "eliminate" /\ ~prop.m.pend
        /\ And(prop.m.g[Top(prop.m).s], Top(prop.m).d) > 0)
    => prop'.m.g = [prop.m.g EXCEPT ![Top(prop.m).s] = @ - Top(prop.m).d]

\* C11: every call of fill or eliminate on a grid with values in 0..511
\* returns; during the call no square gains a digit, and each entry of
\* eliminate past its guard takes exactly one digit from one square.
C11_PropagationTerminates ==
    /\ [][PropMonotone /\ EliminateTakesOneBit]_vars
    /\ <>(PropDone(prop.m))

C11_Witness ==
    /\ pc = "propagate"
    /\ PropDone(prop.m)
    /\ prop.m.rv
    /\ Cardinality({ s \in 0..(NN - 1) : prop.m.g[s] # prop.in[s] }) > 2 * N + 3
    /\ \A s \in 0..(NN - 1) : SubBits(prop.m.g[s], prop.in[s])

\* no two peers hold the same value
PeersDiffer(grid) ==
    \A s \in 0..(NN - 1) : \A k \in 1..Len(PEERS[s]) : grid[s] # grid[PEERS[s][k]]

\* the puzzles of Files known to have no solution although every fill of
\* initialize succeeds on them
NoSolution(puzzle) ==
    puzzle \in { parseGrid(Line(UnsolvablePuzzle)).grid,
                 parseGrid(Line(UnsolvablePuzzle2)).grid }

\* C12: when every fill of initialize has succeeded, a grid that search
\* returns and that is not nil has one digit in every square and no two peers
\* with the same digit, so every unit is a permutation and every given is
\* kept; for such a puzzle without a solution search returns nil.
C12_SearchSound ==
    (pc = "report" /\ initFailedAt = -1) =>
        /\ ~IsNil(solution) =>
              /\ Complete(solution)
              /\ PeersDiffer(solution)
              /\ IsSolved(solution)
              /\ Retains(solution, CurPuzzle)
        /\ NoSolution(CurPuzzle) => IsNil(solution)

C12_Witness ==
    /\ pc = "report"
    /\ initFailedAt = -1
    /\ NoSolution(CurPuzzle)
    /\ IsNil(solution)
    /\ backtracks > 2 * N
====
